---- MODULE Spec2Model ----
(***************************************************************************)
(* ImageCache of react-native-img-cache (src/src/index.tsx): the per-URI   *)
(* cache entries, the downloads and existence checks that are pending in   *)
(* react-native-fs, and the files of the cache directory.                  *)
(*                                                                         *)
(* JavaScript runs every handler and every promise callback to completion, *)
(* so each public method and each promise callback is one action.  The     *)
(* pending promises (downloads, existence checks, the directory removal    *)
(* asked by clear) are state, and they resolve in any order.               *)
(***************************************************************************)
EXTENDS Integers, Sequences, FiniteSets, Bags, TLC

URIs == {"a"}
Handlers == {"h1", "h2"}

\* The request descriptors an observer may pass for uri: the URI alone, or
\* with a method and headers.
Sources(uri) ==
    {[uri |-> uri, method |-> "undefined", headers |-> "undefined"],
     [uri |-> uri, method |-> "POST", headers |-> "Authorization"]}

\* Bounds of the model.
MaxJobs == 2        \* downloads launched for one URI in one run
MaxClears == 1      \* clear() calls that drop a non-empty index
MaxHandlers == 2    \* length of one entry's handlers array
MaxChecks == 2      \* fs.exists() promises of get() pending at a time
MaxLen == 5         \* characters of a URI whose file name is derived

\* URIs as the strings getPath takes apart: sequences of characters, of which
\* "/", "." and "?" are the ones it looks for.
Chars == {"/", ".", "?", "x"}
Names == UNION {[1..n -> Chars] : n \in 1..MaxLen}

\* String.prototype.indexOf and lastIndexOf of one character: positions are
\* counted from 0, and -1 says the character is not there.
indexOf(str, ch) ==
    IF \E i \in DOMAIN str : str[i] = ch
    THEN (CHOOSE i \in DOMAIN str : str[i] = ch /\ \A k \in 1..(i - 1) : str[k] # ch) - 1
    ELSE -1

lastIndexOf(str, ch) ==
    IF \E i \in DOMAIN str : str[i] = ch
    THEN (CHOOSE i \in DOMAIN str : str[i] = ch /\ \A k \in (i + 1)..Len(str) : str[k] # ch) - 1
    ELSE -1

\* String.prototype.substring(start, end): each index is clamped to
\* 0..length, and the two are swapped when start is the greater.
clamp(str, i) == IF i < 0 THEN 0 ELSE IF i > Len(str) THEN Len(str) ELSE i

substring(str, start, end) ==
    LET a == clamp(str, start)
        b == clamp(str, end)
    IN IF a <= b THEN SubSeq(str, a + 1, b) ELSE SubSeq(str, b + 1, a)

\* The extension getPath gives the local file of uri.
ext(uri) ==
    LET path1 == substring(uri, lastIndexOf(uri, "/"), Len(uri))
        path == IF indexOf(path1, "?") = -1 THEN path1
                ELSE substring(path1, lastIndexOf(path1, "."), indexOf(path1, "?"))
    IN IF indexOf(path, ".") = -1 THEN <<".", "j", "p", "g">>
       ELSE substring(path, indexOf(path, "."), Len(path))

\* `undefined` for CacheEntry.path, and null/undefined for CacheEntry.task.
Undef == <<"undefined", "", 0>>
NoTask == 0
None == "none"

\* getPath that names every file by the hash of its URI.
MutantGetPathAlwaysHashed(uri, immutable, n) == <<"sha1", uri, 0>>

\* getPath: BASE_DIR/SHA1(uri)+ext for an immutable entry; for a mutable one
\* a name of eight s4() draws, 128 random bits, which is modelled as a name no
\* earlier call produced (n numbers the calls).
getPath(uri, immutable, n) ==
    IF immutable = TRUE THEN <<"sha1", uri, 0>> ELSE <<"s4", uri, n>>

VARIABLES
    gen,            \* which object this.cache is: clear() installs a new one
    ent,            \* the CacheEntry objects: <<uri, gen>> -> entry
    jobs,           \* downloads whose promise chain has not finished
    nextJob,        \* per URI, the number of the next fs.downloadFile() for it
    checks,         \* bag of pending fs.exists() promises issued by get()
    files,          \* files under BASE_DIR: path -> "partial" | "full"
    dirExists,      \* BASE_DIR exists
    unlinkPending,  \* fs.unlink(BASE_DIR) of clear() asked, not yet performed
    last,           \* the handler calls the last step made, and whether notify threw
    invalidated,    \* the local paths that bust has cleared from an entry (history)
    busted,         \* per URI, the last bust of its mutable entry: the number of
                    \* the next download at the call (at), and the number of the
                    \* download in flight at the call, or at if none was (lo)
    naming          \* a URI as a string, and the extension getPath derived from it

vars == <<gen, ent, jobs, nextJob, checks, files, dirExists, unlinkPending, last,
          invalidated, busted, naming>>

Gens == 0..MaxClears
Key(u) == <<u, gen>>

\* The mutable part of the program that the methods read and write.
Heap == [ent |-> ent, jobs |-> jobs, nextJob |-> nextJob, checks |-> checks,
         files |-> files, calls |-> <<>>, threw |-> FALSE,
         invalidated |-> invalidated, busted |-> busted]

Put(f, k, v) == [x \in DOMAIN f \cup {k} |-> IF x = k THEN v ELSE f[x]]
Drop(f, k) == [x \in DOMAIN f \ {k} |-> f[x]]

exists(s, path) == path \in DOMAIN s.files
unlink(s, path) == [s EXCEPT !.files = Drop(s.files, path)]

\* Array.prototype.splice(index, 1), index counted from 0.
splice(hs, index) == [i \in 1..(Len(hs) - 1) |-> IF i <= index THEN hs[i] ELSE hs[i + 1]]

\* The forEach of dispose: the length is read once, before the loop, and an
\* index that is no longer in the array is skipped.
RECURSIVE disposeLoop(_, _, _, _)
disposeLoop(hs, handler, index, len) ==
    IF index >= len THEN hs
    ELSE IF index < Len(hs) /\ hs[index + 1] = handler
         THEN disposeLoop(splice(hs, index), handler, index + 1, len)
         ELSE disposeLoop(hs, handler, index + 1, len)

disposeHandlers(hs, handler) == disposeLoop(hs, handler, 0, Len(hs))

dispose(s, u, handler) ==
    IF Key(u) \in DOMAIN s.ent
    THEN [s EXCEPT !.ent[Key(u)].handlers = disposeHandlers(@, handler)]
    ELSE s

\* The forEach of notify: every handler reads this.cache[uri].path when it is
\* called; react[h] is the handler that h unregisters from inside its call
\* (None: h only stores the path, as BaseCachedImage.handler does).
RECURSIVE notifyLoop(_, _, _, _, _, _, _)
notifyLoop(u, hs, path, react, index, len, calls) ==
    IF index >= len THEN [handlers |-> hs, calls |-> calls]
    ELSE IF index < Len(hs)
         THEN LET h == hs[index + 1]
                  hs2 == IF react[h] = None THEN hs ELSE disposeHandlers(hs, react[h])
              IN notifyLoop(u, hs2, path, react, index + 1, len,
                            Append(calls, [uri |-> u, handler |-> h, path |-> path]))
         ELSE notifyLoop(u, hs, path, react, index + 1, len, calls)

\* notify throws a TypeError when this.cache[uri] is undefined.
notify(s, u, react) ==
    IF Key(u) \notin DOMAIN s.ent THEN [s EXCEPT !.threw = TRUE]
    ELSE LET e == s.ent[Key(u)]
             r == notifyLoop(u, e.handlers, e.path, react, 0, Len(e.handlers), <<>>)
         IN [s EXCEPT !.ent[Key(u)].handlers = r.handlers, !.calls = r.calls]

\* download without its guard on cache.task.
MutantDownloadUnguarded(s, k) ==
    LET e == s.ent[k]
        uri == e.source.uri
        n == s.nextJob[uri]
        method == IF e.source.method # "undefined" THEN e.source.method ELSE "GET"
    IN [s EXCEPT !.ent[k].task = n,
                 !.jobs = @ \cup {[id |-> n, uri |-> uri, gen |-> k[2],
                                   path |-> getPath(uri, e.immutable, n),
                                   headers |-> <<method, e.source.headers>>,
                                   phase |-> "running", cancelled |-> FALSE]},
                 !.nextJob[uri] = n + 1]

\* download(cache): cache is the entry object k, whichever index holds it.
\* A job is the download and its promise chain: fromUrl, toFile, the headers
\* passed (the method and the source's headers), and how far the chain is.
download(s, k) ==
    LET e == s.ent[k]
        uri == e.source.uri
        n == s.nextJob[uri]
    IN IF e.task = NoTask
       THEN LET path == getPath(uri, e.immutable, n)
                method == IF e.source.method # "undefined" THEN e.source.method ELSE "GET"
            IN [s EXCEPT !.ent[k].task = n,
                         !.jobs = @ \cup {[id |-> n, uri |-> uri, gen |-> k[2],
                                           path |-> path,
                                           headers |-> <<method, e.source.headers>>,
                                           phase |-> "running", cancelled |-> FALSE]},
                         !.nextJob[uri] = n + 1]
       ELSE s

get(s, u) ==
    LET e == s.ent[Key(u)] IN
    IF e.path # Undef
    THEN [s EXCEPT !.checks = @ (+) SetToBag({[uri |-> u, gen |-> gen, path |-> e.path]})]
    ELSE download(s, Key(u))

\* on that stores the source and the flag of every registration.
MutantOnLastWins(s, source, handler, immutable) ==
    LET uri == source.uri
        s1 == IF Key(uri) \notin DOMAIN s.ent
              THEN [s EXCEPT !.ent = Put(@, Key(uri),
                        [source |-> source,
                         handlers |-> <<handler>>,
                         immutable |-> (immutable = TRUE),
                         path |-> IF immutable = TRUE THEN getPath(uri, immutable, 0)
                                  ELSE Undef,
                         task |-> NoTask])]
              ELSE [s EXCEPT !.ent[Key(uri)].handlers = Append(@, handler),
                             !.ent[Key(uri)].source = source,
                             !.ent[Key(uri)].immutable = (immutable = TRUE)]
    IN get(s1, uri)

on(s, source, handler, immutable) ==
    LET uri == source.uri
        s1 == IF Key(uri) \notin DOMAIN s.ent
              THEN [s EXCEPT !.ent = Put(@, Key(uri),
                        [source |-> source,
                         handlers |-> <<handler>>,
                         immutable |-> (immutable = TRUE),
                         path |-> IF immutable = TRUE THEN getPath(uri, immutable, 0)
                                  ELSE Undef,
                         task |-> NoTask])]
              ELSE [s EXCEPT !.ent[Key(uri)].handlers = Append(@, handler)]
    IN get(s1, uri)

\* What a bust of the entry of u records in busted.
Busted(s, u) ==
    [at |-> s.nextJob[u],
     lo |-> IF s.ent[Key(u)].task # NoTask THEN s.ent[Key(u)].task ELSE s.nextJob[u]]

NeverBusted == [at |-> 0, lo |-> 0]

\* bust that leaves cache.path as it is.
MutantBustKeepsPath(s, u) ==
    IF Key(u) \in DOMAIN s.ent /\ ~s.ent[Key(u)].immutable
    THEN get([s EXCEPT !.busted[u] = Busted(s, u)], u)
    ELSE s

\* bust without its test of cache.immutable.
MutantBustAnyEntry(s, u) ==
    IF Key(u) \in DOMAIN s.ent
    THEN get([s EXCEPT !.ent[Key(u)].path = Undef,
                       !.invalidated = @ \cup ({s.ent[Key(u)].path} \ {Undef})], u)
    ELSE s

bust(s, u) ==
    IF Key(u) \in DOMAIN s.ent /\ ~s.ent[Key(u)].immutable
    THEN get([s EXCEPT !.ent[Key(u)].path = Undef,
                       !.invalidated = @ \cup ({s.ent[Key(u)].path} \ {Undef}),
                       !.busted[u] = Busted(s, u)], u)
    ELSE s

\* cancel that also forgets the task at once.
MutantCancelClearsTask(s, u) ==
    IF Key(u) \in DOMAIN s.ent /\ s.ent[Key(u)].task # NoTask
    THEN [s EXCEPT !.jobs = {IF j.uri = u /\ j.id = s.ent[Key(u)].task /\ j.phase = "running"
                             THEN [j EXCEPT !.cancelled = TRUE] ELSE j : j \in @},
                   !.ent[Key(u)].task = NoTask]
    ELSE s

\* fs.stopDownload(jobId): the download's promise will reject.
cancel(s, u) ==
    IF Key(u) \in DOMAIN s.ent /\ s.ent[Key(u)].task # NoTask
    THEN [s EXCEPT !.jobs = {IF j.uri = u /\ j.id = s.ent[Key(u)].task /\ j.phase = "running"
                             THEN [j EXCEPT !.cancelled = TRUE] ELSE j : j \in @}]
    ELSE s

\* A catch that deletes the file and leaves cache.task set.
MutantCatchKeepsTask(s, j) == unlink(s, j.path)

\* The catch of download's promise chain.
catch(s, j) ==
    unlink([s EXCEPT !.ent[<<j.uri, j.gen>>].task = NoTask], j.path)

\* Entry objects of a dropped index that no pending callback can reach are
\* garbage; of those a callback still holds, only task and immutable are read
\* (download) and written, so their handlers and path are not kept.
Live(s, g) ==
    [k \in {k \in DOMAIN s.ent :
                \/ k[2] = g
                \/ \E j \in s.jobs : <<j.uri, j.gen>> = k
                \/ \E c \in BagToSet(s.checks) : <<c.uri, c.gen>> = k} |->
        IF k[2] = g THEN s.ent[k]
        ELSE [s.ent[k] EXCEPT !.handlers = <<>>, !.path = Undef]]

Named(s, g) ==
    {Live(s, g)[k].path : k \in DOMAIN Live(s, g)}
        \cup {j.path : j \in s.jobs} \cup {c.path : c \in BagToSet(s.checks)}

Bounded(s) ==
    /\ \A u \in URIs : s.nextJob[u] <= MaxJobs + 1
    /\ BagCardinality(s.checks) <= MaxChecks
    /\ \A k \in DOMAIN s.ent : Len(s.ent[k].handlers) <= MaxHandlers

Commit(s, g) ==
    /\ Bounded(s)
    /\ ent' = Live(s, g)
    /\ jobs' = s.jobs
    /\ nextJob' = s.nextJob
    /\ checks' = s.checks
    /\ files' = [p \in DOMAIN s.files \cap Named(s, g) |-> s.files[p]]
    /\ last' = [calls |-> s.calls, threw |-> s.threw]
    /\ invalidated' = s.invalidated \cap Named(s, g)
    /\ busted' = [u \in URIs |-> IF <<u, g>> \in DOMAIN s.ent THEN s.busted[u]
                                 ELSE NeverBusted]
    /\ UNCHANGED naming

InitCache ==
    /\ gen = 0
    /\ ent = << >>
    /\ jobs = {}
    /\ nextJob = [u \in URIs |-> 1]
    /\ checks = EmptyBag
    /\ \E kept \in SUBSET URIs :
           files = [p \in {getPath(u, TRUE, 0) : u \in kept} |-> "full"]
    /\ dirExists = TRUE
    /\ unlinkPending = FALSE
    /\ last = [calls |-> <<>>, threw |-> FALSE]
    /\ invalidated = {}
    /\ busted = [u \in URIs |-> NeverBusted]

Init == InitCache /\ naming = [uri |-> <<>>, ext |-> <<>>]

\* What the handlers registered for u may do when called: nothing, or
\* unregister a registered handler (themselves or another).
Registered(u) ==
    IF Key(u) \in DOMAIN ent
    THEN {ent[Key(u)].handlers[i] : i \in DOMAIN ent[Key(u)].handlers} ELSE {}

Reacts(u) ==
    {r \in [Handlers -> Handlers \cup {None}] :
        \A h \in Handlers : r[h] # None => {h, r[h]} \subseteq Registered(u)}

On(source, h, immutable) ==
    /\ Commit(on(Heap, source, h, immutable), gen)
    /\ UNCHANGED <<gen, dirExists, unlinkPending>>

Dispose(u, h) ==
    /\ Commit(dispose(Heap, u, h), gen)
    /\ UNCHANGED <<gen, dirExists, unlinkPending>>

Bust(u) ==
    /\ Commit(bust(Heap, u), gen)
    /\ UNCHANGED <<gen, dirExists, unlinkPending>>

Cancel(u) ==
    /\ Commit(cancel(Heap, u), gen)
    /\ UNCHANGED <<gen, dirExists, unlinkPending>>

\* clear(): this.cache = {} and fs.unlink(BASE_DIR), which react-native-fs
\* performs later.
Clear ==
    /\ \/ /\ \E k \in DOMAIN ent : k[2] = gen
          /\ gen < MaxClears
          /\ gen' = gen + 1
       \/ /\ \A k \in DOMAIN ent : k[2] # gen
          /\ gen' = gen
    /\ Commit(Heap, gen')
    /\ unlinkPending' = TRUE
    /\ UNCHANGED dirExists

\* react-native-fs removes BASE_DIR and all it holds; nothing creates it again
\* (fs.mkdir is called by the constructor alone).
UnlinkDir ==
    /\ unlinkPending
    /\ unlinkPending' = FALSE
    /\ dirExists' = FALSE
    /\ Commit([Heap EXCEPT !.files = << >>], gen)
    /\ UNCHANGED gen

\* The callback of fs.exists(cache.path) in get, the file being there.
ExistsResultTrue(c, react) ==
    /\ BagIn(c, checks)
    /\ c.path \in DOMAIN files
    /\ Commit(notify([Heap EXCEPT !.checks = @ (-) SetToBag({c})], c.uri, react), gen)
    /\ UNCHANGED <<gen, dirExists, unlinkPending>>

\* The same callback, the file being missing.
ExistsResultFalse(c) ==
    /\ BagIn(c, checks)
    /\ c.path \notin DOMAIN files
    /\ Commit(download([Heap EXCEPT !.checks = @ (-) SetToBag({c})], <<c.uri, c.gen>>), gen)
    /\ UNCHANGED <<gen, dirExists, unlinkPending>>

\* A running download has written part of its file.
DownloadProgress(j) ==
    /\ j \in jobs /\ j.phase = "running" /\ dirExists
    /\ j.path \in DOMAIN files => files[j.path] = "full"
    /\ Commit([Heap EXCEPT !.files = Put(@, j.path, "partial")], gen)
    /\ UNCHANGED <<gen, dirExists, unlinkPending>>

\* The download's promise resolves: the first then of download.
DownloadResolved(j) ==
    /\ j \in jobs /\ j.phase = "running" /\ ~j.cancelled /\ dirExists
    /\ Commit([Heap EXCEPT !.files = Put(@, j.path, "full"),
                           !.ent[<<j.uri, j.gen>>].task = NoTask,
                           !.ent[<<j.uri, j.gen>>].path = j.path,
                           !.jobs = (@ \ {j}) \cup {[j EXCEPT !.phase = "verify"]}], gen)
    /\ UNCHANGED <<gen, dirExists, unlinkPending>>

\* fs.exists(path) of the first then resolves true: the second then calls
\* notify, and the catch runs when notify throws.
DownloadVerified(j, react) ==
    /\ j \in jobs /\ j.phase = "verify"
    /\ j.path \in DOMAIN files
    /\ LET s == [Heap EXCEPT !.jobs = @ \ {j}]
           n == notify(s, j.uri, react)
       IN Commit(IF n.threw THEN [catch(s, j) EXCEPT !.threw = TRUE] ELSE n, gen)
    /\ UNCHANGED <<gen, dirExists, unlinkPending>>

\* fs.exists(path) of the first then resolves false: the second then returns.
DownloadUnverified(j) ==
    /\ j \in jobs /\ j.phase = "verify"
    /\ j.path \notin DOMAIN files
    /\ Commit([Heap EXCEPT !.jobs = @ \ {j}], gen)
    /\ UNCHANGED <<gen, dirExists, unlinkPending>>

\* The download's promise rejects (network or storage error, stopDownload).
DownloadRejected(j) ==
    /\ j \in jobs /\ j.phase = "running"
    /\ Commit(catch([Heap EXCEPT !.jobs = @ \ {j}], j), gen)
    /\ UNCHANGED <<gen, dirExists, unlinkPending>>

\* The operating system evicts a cached file.
Evict(p) ==
    /\ p \in DOMAIN files /\ files[p] = "full"
    /\ Commit([Heap EXCEPT !.files = Drop(@, p)], gen)
    /\ UNCHANGED <<gen, dirExists, unlinkPending>>

Next ==
    \/ \E u \in URIs, h \in Handlers, immutable \in BOOLEAN :
          \E source \in Sources(u) : On(source, h, immutable)
    \/ \E u \in URIs, h \in Handlers : Dispose(u, h)
    \/ \E u \in URIs : Bust(u)
    \/ \E u \in URIs : Cancel(u)
    \/ Clear
    \/ UnlinkDir
    \/ \E c \in BagToSet(checks) : \E react \in Reacts(c.uri) : ExistsResultTrue(c, react)
    \/ \E c \in BagToSet(checks) : ExistsResultFalse(c)
    \/ \E j \in jobs : DownloadProgress(j)
    \/ \E j \in jobs : DownloadResolved(j)
    \/ \E j \in jobs : \E react \in Reacts(j.uri) : DownloadVerified(j, react)
    \/ \E j \in jobs : DownloadUnverified(j)
    \/ \E j \in jobs : DownloadRejected(j)
    \/ \E p \in DOMAIN files : Evict(p)

Spec == Init /\ [][Next]_vars

(***************************************************************************)
(* Two registrations for one URI that is not in storage, followed only by  *)
(* the results of the existence checks and of a download that succeeds.    *)
(***************************************************************************)
NoReact == [h \in Handlers |-> None]

InitRegister == Init /\ files = << >>

RegisterOn(source, h, immutable) ==
    /\ Key(source.uri) \in DOMAIN ent =>
          /\ Len(ent[Key(source.uri)].handlers) < 2
          /\ ent[Key(source.uri)].path \notin DOMAIN files
          /\ \A j \in jobs : j.uri = source.uri => j.phase = "running"
    /\ On(source, h, immutable)

NextRegister ==
    \/ \E u \in URIs, h \in Handlers, immutable \in BOOLEAN :
          \E source \in Sources(u) : RegisterOn(source, h, immutable)
    \/ \E c \in BagToSet(checks) : ExistsResultTrue(c, NoReact)
    \/ \E c \in BagToSet(checks) : ExistsResultFalse(c)
    \/ \E j \in jobs : DownloadProgress(j)
    \/ \E j \in jobs : DownloadResolved(j)
    \/ \E j \in jobs : DownloadVerified(j, NoReact)

SpecRegister == InitRegister /\ [][NextRegister]_vars

(***************************************************************************)
(* The runs in which no URI is invalidated and the cache is never cleared. *)
(***************************************************************************)
NextKept ==
    \/ \E u \in URIs, h \in Handlers, immutable \in BOOLEAN :
          \E source \in Sources(u) : On(source, h, immutable)
    \/ \E u \in URIs, h \in Handlers : Dispose(u, h)
    \/ \E u \in URIs : Cancel(u)
    \/ \E c \in BagToSet(checks) : \E react \in Reacts(c.uri) : ExistsResultTrue(c, react)
    \/ \E c \in BagToSet(checks) : ExistsResultFalse(c)
    \/ \E j \in jobs : DownloadProgress(j)
    \/ \E j \in jobs : DownloadResolved(j)
    \/ \E j \in jobs : \E react \in Reacts(j.uri) : DownloadVerified(j, react)
    \/ \E j \in jobs : DownloadUnverified(j)
    \/ \E j \in jobs : DownloadRejected(j)
    \/ \E p \in DOMAIN files : Evict(p)

SpecKept == Init /\ [][NextKept]_vars

----------------------------------------------------------------------------
Count(seq, x) == Cardinality({i \in DOMAIN seq : seq[i] = x})
Called == [i \in DOMAIN last.calls |-> last.calls[i].handler]
Running(k) == {j \in jobs : j.phase = "running" /\ <<j.uri, j.gen>> = k}
Quiet(u) ==
    /\ \A j \in jobs : j.uri # u
    /\ \A c \in BagToSet(checks) : c.uri # u

\* C1: when two observers have registered for a URI before it resolved, at
\* most one download is ever launched for it, every fan-out calls both
\* observers, in registration order, with the destination of that download,
\* and once no check or download is pending exactly one download was
\* launched and the observers have been called.
C1_OneDownloadSamePath ==
    \A u \in URIs :
        (Key(u) \in DOMAIN ent /\ Len(ent[Key(u)].handlers) = 2) =>
            LET e == ent[Key(u)] IN
            /\ nextJob[u] <= 2
            /\ last.calls # <<>> =>
                  /\ Called = e.handlers
                  /\ \A i \in DOMAIN last.calls :
                        /\ last.calls[i].path = getPath(u, e.immutable, 1)
                        /\ last.calls[i].path = e.path
            /\ Quiet(u) => nextJob[u] = 2 /\ last.calls # <<>>

C1_Witness ==
    /\ Key("a") \in DOMAIN ent
    /\ ent[Key("a")].handlers = <<"h1", "h2">>
    /\ Quiet("a")
    /\ nextJob["a"] = 2
    /\ Called = <<"h1", "h2">>

\* C2: an entry of the index never has two downloads running, and the one
\* that runs is the one its task field holds.
C2_OneFetchPerEntry ==
    \A u \in URIs :
        Key(u) \in DOMAIN ent =>
            /\ Cardinality(Running(Key(u))) <= 1
            /\ \A j \in Running(Key(u)) : ent[Key(u)].task = j.id

\* A mutable entry that never resolved, whose only download is running, and
\* for which a second observer has registered.
C2_Witness ==
    /\ Key("a") \in DOMAIN ent
    /\ ~ent[Key("a")].immutable
    /\ ent[Key("a")].path = Undef
    /\ Len(ent[Key("a")].handlers) = 2
    /\ nextJob["a"] = 2
    /\ Cardinality(Running(Key("a"))) = 1

\* C3: while an entry's local path names a completely downloaded file that is
\* in storage, the result of no pending existence check, and no on(),
\* launches a download for that entry.
C3_FetchedAtMostOnce ==
    \A u \in URIs :
        (/\ Key(u) \in DOMAIN ent
         /\ ent[Key(u)].path \in DOMAIN files
         /\ files[ent[Key(u)].path] = "full")
        => /\ \A c \in BagToSet(checks) :
                 (c.uri = u /\ c.gen = gen /\ c.path \notin DOMAIN files) =>
                     download(Heap, Key(u)).nextJob[u] = nextJob[u]
           /\ \A h \in Handlers, source \in Sources(u), immutable \in BOOLEAN :
                 on(Heap, source, h, immutable).nextJob[u] = nextJob[u]

\* C4: after dispose(uri, h), h is nowhere in the handlers of the URI.
C4_DisposeRemovesEveryOccurrence ==
    \A u \in URIs, h \in Handlers :
        Key(u) \in DOMAIN ent =>
            LET hs == dispose(Heap, u, h).ent[Key(u)].handlers
            IN \A i \in DOMAIN hs : hs[i] # h

\* C5: no handler is called with an undefined path.
C5_NoUndefinedPath ==
    \A i \in DOMAIN last.calls : last.calls[i].path # Undef

\* C6: a fan-out does not throw, passes the entry's path to every call, and
\* calls every handler that is registered when it ends, once per occurrence.
C6_FanoutReachesEveryHandler ==
    /\ ~last.threw
    /\ last.calls # <<>> =>
          LET e == ent[Key(last.calls[1].uri)] IN
          /\ \A i \in DOMAIN last.calls : last.calls[i].path = e.path
          /\ \A h \in Handlers : Count(e.handlers, h) <= Count(Called, h)

\* C7: the step that ends a cancelled download calls no handler, and while a
\* cancelled download of a never-resolved entry is pending, on() for its URI
\* launches a new download.
C7_CancelThenRegisterRefetches ==
    [][\A j \in jobs :
          j.cancelled =>
              /\ (\A j2 \in jobs' : j2.uri = j.uri => j2.id # j.id) => last'.calls = <<>>
              /\ (j.gen = gen /\ ent[Key(j.uri)].path = Undef) =>
                    \A h \in Handlers, source \in Sources(j.uri) :
                        on(Heap, source, h, FALSE).nextJob[j.uri] = nextJob[j.uri] + 1]_vars

\* C8: a registration that creates an entry makes the handler its only
\* observer and starts the resolution, and the cache directory exists when a
\* download is launched.
C8_RegistrationAfterClearIsFirstTime ==
    [][\A u \in URIs :
          LET k == <<u, gen'>> IN
          /\ (k \notin DOMAIN ent /\ k \in DOMAIN ent') =>
                /\ Len(ent'[k].handlers) = 1
                /\ ent'[k].task # NoTask \/ checks' # checks
          /\ nextJob'[u] > nextJob[u] => dirExists']_vars

\* The step in which the promise of the running download j rejects.
Rejects(j) ==
    /\ j \in jobs /\ j.phase = "running"
    /\ \A j2 \in jobs' : j2.uri = j.uri => j2.id # j.id

\* What a rejection leaves: the task cleared, the path and the handlers as
\* they were, no handler called, no file at the destination.
RejectionFrame(j) ==
    LET k == <<j.uri, j.gen>> IN
    /\ last'.calls = <<>>
    /\ j.path \notin DOMAIN files'
    /\ k \in DOMAIN ent' =>
          /\ ent'[k].task = NoTask
          /\ ent'[k].path = ent[k].path
          /\ ent'[k].handlers = ent[k].handlers

\* on() for the entry of j, called right after the rejection, leads to a new
\* download: at once when the path is undefined; otherwise it asks for the
\* existence of the path, which is missing, and the answer launches it.
LaunchByOn(j) ==
    \A h \in Handlers, source \in Sources(j.uri), immutable \in BOOLEAN :
        LET r == on(Heap', source, h, immutable) IN
        IF ent'[Key(j.uri)].path = Undef
        THEN r.nextJob[j.uri] = nextJob'[j.uri] + 1
        ELSE /\ BagCardinality(r.checks) = BagCardinality(checks') + 1
             /\ ~exists(r, ent'[Key(j.uri)].path)
             /\ download(r, Key(j.uri)).nextJob[j.uri] = nextJob'[j.uri] + 1

\* on() for the entry of j, called right after the rejection, runs the
\* resolution again: a download is launched at once when the path is
\* undefined; otherwise the existence of the path is asked, and the answer
\* launches the download when the file is missing.
RetryByOn(j) ==
    \A h \in Handlers, source \in Sources(j.uri), immutable \in BOOLEAN :
        LET r == on(Heap', source, h, immutable) IN
        IF ent'[Key(j.uri)].path = Undef
        THEN r.nextJob[j.uri] = nextJob'[j.uri] + 1
        ELSE /\ BagCardinality(r.checks) = BagCardinality(checks') + 1
             /\ ~exists(r, ent'[Key(j.uri)].path) =>
                   download(r, Key(j.uri)).nextJob[j.uri] = nextJob'[j.uri] + 1

RetryByBust(j) ==
    bust(Heap', j.uri).nextJob[j.uri] = nextJob'[j.uri] + 1

C10_NoPathReuse ==
    \A i \in DOMAIN last.calls : last.calls[i].path \notin invalidated

\* bust() cleared the path of the first download, and the second download
\* has delivered its own.
C10_Witness ==
    /\ last.calls # <<>>
    /\ last.calls[1].path = <<"s4", "a", 2>>
    /\ <<"s4", "a", 1>> \in invalidated

\* C11: an immutable entry's path is the path derived from its URI, in every
\* state from its creation on (before, during and after any download, and
\* after a failure), and bust() for it changes nothing and launches nothing.
C11_ImmutablePathFixed ==
    \A u \in URIs :
        (Key(u) \in DOMAIN ent /\ ent[Key(u)].immutable) =>
            /\ ent[Key(u)].path = getPath(u, TRUE, 0)
            /\ bust(Heap, u) = Heap

\* An immutable entry after its first download failed and its second one
\* succeeded.
C11_Witness ==
    /\ Key("a") \in DOMAIN ent
    /\ ent[Key("a")].immutable
    /\ nextJob["a"] = 3
    /\ jobs = {}
    /\ ent[Key("a")].path \in DOMAIN files

\* The step in which the existence check c is answered "missing".
Misses(c) ==
    /\ BagIn(c, checks)
    /\ c.path \notin DOMAIN files
    /\ checks' = checks (-) SetToBag({c})

\* The download of the entry of u that an existence-check miss launched has
\* not finished: the entry has a path and a task.
Refetching(u) ==
    /\ Key(u) \in DOMAIN ent
    /\ ent[Key(u)].path # Undef
    /\ ent[Key(u)].task # NoTask

\* C12: the step that answers an existence check "missing" calls no handler
\* and leaves a download running for the entry, and no handler is called
\* while the download that followed a miss has not succeeded.
C12_MissRefetchesBeforeNotifying ==
    [][/\ \A c \in BagToSet(checks) :
             Misses(c) =>
                 /\ last'.calls = <<>>
                 /\ ent'[<<c.uri, c.gen>>].task # NoTask
                 /\ \E j \in jobs' : /\ j.uri = c.uri /\ j.gen = c.gen
                                     /\ j.id = ent'[<<c.uri, c.gen>>].task
                                     /\ j.phase = "running"
       /\ \A u \in URIs : Refetching(u) => last'.calls = <<>>]_vars

(***************************************************************************)
(* The runs of C13: downloads succeed, no file is evicted, cancel and clear *)
(* are not called, and every pending callback is eventually run.           *)
(***************************************************************************)
NextLive ==
    \/ \E u \in URIs, h \in Handlers, immutable \in BOOLEAN :
          \E source \in Sources(u) : On(source, h, immutable)
    \/ \E u \in URIs, h \in Handlers : Dispose(u, h)
    \/ \E u \in URIs : Bust(u)
    \/ \E c \in BagToSet(checks) : \E react \in Reacts(c.uri) : ExistsResultTrue(c, react)
    \/ \E c \in BagToSet(checks) : ExistsResultFalse(c)
    \/ \E j \in jobs : DownloadProgress(j)
    \/ \E j \in jobs : DownloadResolved(j)
    \/ \E j \in jobs : \E react \in Reacts(j.uri) : DownloadVerified(j, react)

FairLive ==
    /\ WF_vars(\E c \in BagToSet(checks) : \E react \in Reacts(c.uri) : ExistsResultTrue(c, react))
    /\ WF_vars(\E c \in BagToSet(checks) : ExistsResultFalse(c))
    /\ WF_vars(\E j \in jobs : DownloadResolved(j))
    /\ WF_vars(\E j \in jobs : \E react \in Reacts(j.uri) : DownloadVerified(j, react))

SpecLive == Init /\ [][NextLive]_vars /\ FairLive

\* A check or a download of the entry of u is pending.
Resolving(u) ==
    \/ \E c \in BagToSet(checks) : c.uri = u /\ c.gen = gen
    \/ \E j \in jobs : j.uri = u /\ j.gen = gen

\* The last step called h with a set path.
Served(h) ==
    \E i \in DOMAIN last.calls :
        last.calls[i].handler = h /\ last.calls[i].path # Undef

\* C13: a handler that is registered for a URI whose resolution is pending
\* (as it is after every on()) is eventually called with a set path, or
\* unregistered.
C13_RegisteredHandlerEventuallyServed ==
    \A u \in URIs, h \in Handlers :
        (h \in Registered(u) /\ Resolving(u)) ~> (Served(h) \/ h \notin Registered(u))

\* The step in which the download j, whose promise resolved, finds no file at
\* its destination (the second then of download returns).
Unverified(j) ==
    /\ j \in jobs /\ j.phase = "verify"
    /\ j.path \notin DOMAIN files
    /\ j \notin jobs'

\* C14: when a download that reported success finds its file absent, the
\* entry does not hold this download as its task, its path is not the
\* destination of this download, and no handler is called.
C14_UnverifiedLeavesPathUnset ==
    [][\A j \in jobs :
          (Unverified(j) /\ <<j.uri, j.gen>> \in DOMAIN ent') =>
              /\ ent'[<<j.uri, j.gen>>].task # j.id
              /\ j.gen = gen => ent'[<<j.uri, j.gen>>].path # j.path
              /\ last'.calls = <<>>]_vars

\* The number of the download that produced a set path.
Producer(path) == path[3]

\* C15 (as stated): every set path delivered for a URI after a bust of its
\* mutable entry was produced by a download launched at or after that call.
C15_DeliveredPathIsPostBust ==
    \A i \in DOMAIN last.calls :
        last.calls[i].path # Undef =>
            Producer(last.calls[i].path) >= busted[last.calls[i].uri].at

\* C15 (amended): every set path delivered for a URI after a bust of its
\* mutable entry was produced by a download launched at or after that call
\* when no download was in flight at the call, and by the download that was
\* in flight, or a later one, otherwise; a bust with a download in flight
\* launches none.
C15_DeliveredPathIsNotOlderThanBust ==
    /\ \A i \in DOMAIN last.calls :
          last.calls[i].path # Undef =>
              Producer(last.calls[i].path) >= busted[last.calls[i].uri].lo
    /\ \A u \in URIs :
          (Key(u) \in DOMAIN ent /\ ~ent[Key(u)].immutable) =>
              /\ busted[u].lo <= busted[u].at
              /\ bust(Heap, u).nextJob[u] =
                    IF ent[Key(u)].task = NoTask THEN nextJob[u] + 1 ELSE nextJob[u]
              /\ ent[Key(u)].task = NoTask => bust(Heap, u).busted[u].lo = nextJob[u]

\* The path of the first download was delivered, bust was called with no
\* download in flight, and the path of the download it launched has been
\* delivered.
C15_Witness ==
    /\ busted["a"] = [at |-> 2, lo |-> 2]
    /\ <<"s4", "a", 1>> \in invalidated
    /\ last.calls # <<>>
    /\ last.calls[1].path = <<"s4", "a", 2>>

\* A callback of the download j, launched for an entry that clear() has
\* dropped from the index, runs in this step.
AbandonedRuns(j) ==
    /\ j \in jobs /\ j.gen # gen
    /\ j \notin jobs'

\* C16: a callback of a download that clear() abandoned calls no handler,
\* throws nothing, and changes no entry of the present index.
C16_AbandonedFetchIsInert ==
    [][\A j \in jobs :
          AbandonedRuns(j) =>
              /\ last'.calls = <<>>
              /\ ~last'.threw
              /\ \A u \in URIs :
                    Key(u) \in DOMAIN ent =>
                        Key(u) \in DOMAIN ent' /\ ent'[Key(u)] = ent[Key(u)]]_vars

\* The downloads of u that the storage layer is running.
RunningFor(u) == {j \in jobs : j.uri = u /\ j.phase = "running"}

\* C17: at most one download per URI is running, and no two running
\* downloads have the same destination file.
C17_OneRunningDownloadPerURI ==
    /\ \A u \in URIs : Cardinality(RunningFor(u)) <= 1
    /\ \A j1, j2 \in jobs :
          (j1.phase = "running" /\ j2.phase = "running" /\ j1.path = j2.path) => j1 = j2

\* The local path of the entry of u names a completely downloaded file.
Stored(u) ==
    /\ Key(u) \in DOMAIN ent
    /\ ent[Key(u)].path \in DOMAIN files
    /\ files[ent[Key(u)].path] = "full"

\* C18: the step that ends a download (its verification, or its catch)
\* deletes no completely downloaded file that is the local path of an entry
\* of the index.
C18_CleanupDeletesOnlyOwnOutput ==
    [][\A j \in jobs :
          (j \notin jobs' /\ \A j2 \in jobs' : j2.uri = j.uri => j2.id # j.id) =>
              \A u \in URIs :
                  Stored(u) => ent[Key(u)].path \in DOMAIN files']_vars

\* C19: on() for a URI that has an entry appends the handler, leaves the
\* entry's immutable flag, source and path as they are, whatever flag and
\* source the call passes, and runs the resolution: an existence check of
\* the path, or, when the path is undefined and no download is in flight, a
\* download with the method and headers of the first registration.
C19_FirstRegistrationWins ==
    \A u \in URIs :
        Key(u) \in DOMAIN ent =>
            \A h \in Handlers, source \in Sources(u), immutable \in BOOLEAN :
                LET e == ent[Key(u)]
                    r == on(Heap, source, h, immutable)
                    f == r.ent[Key(u)]
                    method == IF e.source.method # "undefined" THEN e.source.method
                              ELSE "GET"
                IN /\ f.handlers = Append(e.handlers, h)
                   /\ f.immutable = e.immutable
                   /\ f.source = e.source
                   /\ f.path = e.path
                   /\ r.files = files
                   /\ IF e.path # Undef
                      THEN /\ r.checks = checks (+) SetToBag({[uri |-> u, gen |-> gen, path |-> e.path]})
                           /\ r.jobs = jobs /\ f.task = e.task
                      ELSE /\ r.checks = checks
                           /\ IF e.task # NoTask THEN r.jobs = jobs /\ f.task = e.task
                              ELSE \E j \in r.jobs \ jobs :
                                      /\ r.jobs = jobs \cup {j}
                                      /\ f.task = j.id
                                      /\ j.headers = <<method, e.source.headers>>
                                      /\ j.path = getPath(u, e.immutable, j.id)

\* An entry created immutable with a method and headers, for which a second
\* handler has registered, the two existence checks pending.
C19_Witness ==
    /\ Key("a") \in DOMAIN ent
    /\ ent[Key("a")].handlers = <<"h1", "h2">>
    /\ ent[Key("a")].immutable
    /\ ent[Key("a")].source.method = "POST"
    /\ BagCardinality(checks) = 2

(***************************************************************************)
(* getPath applied to every URI string of at most MaxLen characters.       *)
(***************************************************************************)
InitPath ==
    /\ InitCache /\ files = << >>
    /\ \E uri \in Names : naming = [uri |-> uri, ext |-> <<>>]

GetPath ==
    /\ naming.ext = <<>>
    /\ naming' = [naming EXCEPT !.ext = ext(naming.uri)]
    /\ UNCHANGED <<gen, ent, jobs, nextJob, checks, files, dirExists, unlinkPending,
                   last, invalidated, busted>>

NextPath == GetPath

SpecPath == InitPath /\ [][NextPath]_vars

\* The extension the file of uri is to have: uri without its query string,
\* of that the last path segment, of that the part from the last dot on, or
\* ".jpg" when the segment has no dot.
ExpectedExt(uri) ==
    LET q == indexOf(uri, "?")
        base == IF q = -1 THEN uri ELSE SubSeq(uri, 1, q)
        segment == SubSeq(base, lastIndexOf(base, "/") + 2, Len(base))
        dot == lastIndexOf(segment, ".")
    IN IF dot = -1 THEN <<".", "j", "p", "g">>
       ELSE SubSeq(segment, dot + 1, Len(segment))

\* C20: the extension getPath derives from a URI is the part of the URI's
\* last path segment from its last dot up to the query string, or ".jpg"
\* when that segment has no dot.
C20_ExtensionOfLastSegment ==
    naming.ext # <<>> => naming.ext = ExpectedExt(naming.uri)

====
